---- MODULE Spec2Model ----
(***************************************************************************)
(* val-verify.js: fetch every message of an HCS topic from the mirror      *)
(* node, decode the payloads, run the structural checks and print the      *)
(* audit summary.  val-init.js, val-attest.js and val-soul.js: the scripts *)
(* that create the topic and submit the attestations.                      *)
(***************************************************************************)
EXTENDS Integers, Sequences, FiniteSets, TLC

\* ------------------------------------------------------------------ bounds
MaxLen == 3        \* records fetched in one run
MaxPageLen == 2    \* records in one mirror response
MaxSeq == 3        \* sequence numbers a tampered source may report
MaxTopic == 3      \* messages on the topic when val-soul.js starts
MaxContent == 2    \* different texts an identity file may hold
LongText == 1000   \* bytes of the longest --name or --desc argument

\* ------------------------------------------------------- consensus stamps
\* consensus_timestamp is the string "seconds.nanoseconds"; both parts have
\* a fixed width, modelled as one digit each.  JavaScript compares the
\* strings character by character.
TsSet == { <<0, 1>>, <<1, 0>> }

RECURSIVE StrLess(_, _)
StrLess(a, b) ==
    IF b = <<>> THEN FALSE
    ELSE IF a = <<>> THEN TRUE
    ELSE IF Head(a) < Head(b) THEN TRUE
    ELSE IF Head(a) > Head(b) THEN FALSE
    ELSE StrLess(Tail(a), Tail(b))

\* ------------------------------------------------------------- payloads
\* A payload is the base64 text of one topic message.  json = FALSE is a
\* payload JSON.parse rejects.  Of a parsed object the model keeps the keys
\* the verifier reads: type, data.match, data.soul_hash, and the top-level
\* keys that collide with the ones fetchAllMessages writes (seq = 0,
\* consensusTs = <<>> and parseError = FALSE stand for an absent key).
Payload(json, type, match, hash, seq, ts, pe) ==
    [json |-> json, type |-> type, match |-> match, soul_hash |-> hash,
     seq |-> seq, consensusTs |-> ts, parseError |-> pe]

Garbage == Payload(FALSE, "", "", "", 0, <<>>, FALSE)
Plain(type) == Payload(TRUE, type, "", "", 0, <<>>, FALSE)
Soul(match, hash) == Payload(TRUE, "soul.verify", match, hash, 0, <<>>, FALSE)

MirrorMsg(n, t, p) ==
    [sequence_number |-> n, consensus_timestamp |-> t, message |-> p]

\* one element of the for loop in fetchAllMessages: the try branch spreads
\* the parsed content over seq and consensusTs, the catch branch marks the
\* record
decodeLosesSeq(msg) ==
    IF msg.message.json
    THEN [seq |-> IF msg.message.seq # 0 THEN msg.message.seq
                  ELSE msg.sequence_number,
          consensusTs |-> IF msg.message.consensusTs # <<>>
                          THEN msg.message.consensusTs
                          ELSE msg.consensus_timestamp,
          type |-> msg.message.type,
          match |-> msg.message.match,
          soul_hash |-> msg.message.soul_hash,
          parseError |-> msg.message.parseError]
    ELSE [seq |-> 0,
          consensusTs |-> msg.consensus_timestamp,
          type |-> "", match |-> "", soul_hash |-> "", parseError |-> TRUE]

decode(msg) ==
    IF msg.message.json
    THEN [seq |-> IF msg.message.seq # 0 THEN msg.message.seq
                  ELSE msg.sequence_number,
          consensusTs |-> IF msg.message.consensusTs # <<>>
                          THEN msg.message.consensusTs
                          ELSE msg.consensus_timestamp,
          type |-> msg.message.type,
          match |-> msg.message.match,
          soul_hash |-> msg.message.soul_hash,
          parseError |-> msg.message.parseError]
    ELSE [seq |-> msg.sequence_number,
          consensusTs |-> msg.consensus_timestamp,
          type |-> "", match |-> "", soul_hash |-> "", parseError |-> TRUE]

RECURSIVE decodeAll(_)
decodeAll(msgs) ==
    IF msgs = <<>> THEN <<>>
    ELSE <<decode(Head(msgs))>> \o decodeAll(Tail(msgs))

\* ------------------------------------------------------------------ verify
Issue(sev, code, a, b, t) ==
    [sev |-> sev, code |-> code, a |-> a, b |-> b, t |-> t]

FirstIssuesSkipsUnparsed(messages) ==
    IF messages[1].type # "agent.create" /\ ~messages[1].parseError
    THEN << Issue("FAIL", "first", 0, 0, messages[1].type) >>
    ELSE <<>>

FirstIssues(messages) ==
    IF messages[1].type # "agent.create"
    THEN << Issue("FAIL", "first", 0, 0, messages[1].type) >>
    ELSE <<>>

RECURSIVE GapFromForwardOnly(_, _)
GapFromForwardOnly(messages, i) ==
    IF i > Len(messages) THEN <<>>
    ELSE (IF messages[i].seq > messages[i - 1].seq + 1
          THEN << Issue("FAIL", "gap", messages[i - 1].seq, messages[i].seq, "") >>
          ELSE <<>>) \o GapFromForwardOnly(messages, i + 1)

RECURSIVE GapFrom(_, _)
GapFrom(messages, i) ==
    IF i > Len(messages) THEN <<>>
    ELSE (IF messages[i].seq # messages[i - 1].seq + 1
          THEN << Issue("FAIL", "gap", messages[i - 1].seq, messages[i].seq, "") >>
          ELSE <<>>) \o GapFrom(messages, i + 1)

RECURSIVE TsFromStrict(_, _)
TsFromStrict(messages, i) ==
    IF i > Len(messages) THEN <<>>
    ELSE (IF ~StrLess(messages[i - 1].consensusTs, messages[i].consensusTs)
          THEN << Issue("FAIL", "ts", messages[i].seq, 0, "") >>
          ELSE <<>>) \o TsFromStrict(messages, i + 1)

RECURSIVE TsFrom(_, _)
TsFrom(messages, i) ==
    IF i > Len(messages) THEN <<>>
    ELSE (IF StrLess(messages[i].consensusTs, messages[i - 1].consensusTs)
          THEN << Issue("FAIL", "ts", messages[i].seq, 0, "") >>
          ELSE <<>>) \o TsFrom(messages, i + 1)

IsParseError(m) == m.parseError

ParseIssuesAlways(messages) ==
    << Issue("WARN", "parse", Len(SelectSeq(messages, IsParseError)), 0, "") >>

ParseIssues(messages) ==
    LET parseErrors == SelectSeq(messages, IsParseError)
    IN  IF Len(parseErrors) > 0
        THEN << Issue("WARN", "parse", Len(parseErrors), 0, "") >>
        ELSE <<>>

IsSoulVerify(m) == m.type = "soul.verify"

RECURSIVE SoulFrom(_, _)
SoulFrom(soulVerifies, i) ==
    IF i > Len(soulVerifies) THEN <<>>
    ELSE (IF soulVerifies[i].match = "false"
          THEN << Issue("INFO", "soul", soulVerifies[i].seq, 0, "") >>
          ELSE <<>>) \o SoulFrom(soulVerifies, i + 1)

SoulIssuesFromFirst(messages) == SoulFrom(SelectSeq(messages, IsSoulVerify), 1)

SoulIssues(messages) == SoulFrom(SelectSeq(messages, IsSoulVerify), 2)

verifyStopsAtFirst(messages) ==
    IF Len(messages) = 0
    THEN << Issue("FAIL", "empty", 0, 0, "") >>
    ELSE IF FirstIssues(messages) # <<>> THEN FirstIssues(messages)
    ELSE GapFrom(messages, 2) \o TsFrom(messages, 2)
         \o ParseIssues(messages) \o SoulIssues(messages)

verifyNoEmptyCheck(messages) ==
    IF Len(messages) = 0
    THEN <<>>
    ELSE FirstIssues(messages) \o GapFrom(messages, 2) \o TsFrom(messages, 2)
         \o ParseIssues(messages) \o SoulIssues(messages)

verify(messages) ==
    IF Len(messages) = 0
    THEN << Issue("FAIL", "empty", 0, 0, "") >>
    ELSE FirstIssues(messages) \o GapFrom(messages, 2) \o TsFrom(messages, 2)
         \o ParseIssues(messages) \o SoulIssues(messages)

\* ---------------------------------------------------------- displaySummary
TypeKey(m) == IF m.type = "" THEN "unknown" ELSE m.type

\* typeCounts = {} inherits these names from Object.prototype: reading one
\* that is not an own property yields a function (an object for __proto__),
\* never undefined
ObjectPrototypeKeys ==
    { "constructor", "toString", "toLocaleString", "valueOf", "hasOwnProperty",
      "isPrototypeOf", "propertyIsEnumerable", "__defineGetter__",
      "__defineSetter__", "__lookupGetter__", "__lookupSetter__", "__proto__" }

\* String(f) of the function read under the name t
NativeText(t) ==
    "function " \o (IF t = "constructor" THEN "Object" ELSE t)
                \o "() { [native code] }"

\* typeCounts[t] = (typeCounts[t] || 0) + 1, on tc = [counts, texts]: the
\* own properties that hold a number and those that hold a text.  A number
\* takes + 1; an inherited function or a text takes "1" at its end; the
\* assignment to __proto__ of a text is ignored.
Bump(tc, t) ==
    IF t = "__proto__" THEN tc
    ELSE IF t \in DOMAIN tc.texts
    THEN [tc EXCEPT !.texts = [tc.texts EXCEPT ![t] = @ \o "1"]]
    ELSE IF t \in ObjectPrototypeKeys
    THEN [tc EXCEPT !.texts = tc.texts @@ (t :> (NativeText(t) \o "1"))]
    ELSE IF t \in DOMAIN tc.counts
    THEN [tc EXCEPT !.counts = [tc.counts EXCEPT ![t] = @ + 1]]
    ELSE [tc EXCEPT !.counts = tc.counts @@ (t :> 1)]

\* the for loop over messages
RECURSIVE typeCountsFrom(_, _, _)
typeCountsFrom(messages, i, tc) ==
    IF i > Len(messages) THEN tc
    ELSE typeCountsFrom(messages, i + 1, Bump(tc, TypeKey(messages[i])))

displaySummary(messages, issues) ==
    LET tc == typeCountsFrom(messages, 1, [counts |-> <<>>, texts |-> <<>>])
    IN  [typeCounts |-> tc.counts,
         typeTexts |-> tc.texts,
         total  |-> Len(messages),
         passed |-> (Len(issues) = 0),
         listed |-> issues]

NoReport ==
    [typeCounts |-> <<>>, typeTexts |-> <<>>, total |-> 0, passed |-> FALSE,
     listed |-> <<>>]

\* ------------------------------------------------------------------- state
\* val-verify.js: pc, url, messages, issues and report are the program's;
\* outstanding counts the requests fetchJson has sent and not yet settled,
\* summaries the summaries displaySummary has printed; fetched (the raw
\* records received), lastResp (the latest answer of fetchJson, if any) and
\* failures (rejected requests) record its history.
\* val-soul.js: spc, workspace, topic, soulHash, lastHash and sent.
\* val-init.js: ipc, iargs, topicId, config and isent.
\* val-attest.js: apc, aargs and asent.
VARIABLES pc, url, messages, fetched, issues, report, lastResp, failures,
          outstanding, summaries,
          spc, workspace, topic, soulHash, lastHash, sent,
          ipc, iargs, topicId, config, isent,
          apc, aargs, asent

verifyVars == <<pc, url, messages, fetched, issues, report, lastResp, failures,
                outstanding, summaries>>
soulVars == <<spc, workspace, topic, soulHash, lastHash, sent>>
initVars == <<ipc, iargs, topicId, config, isent>>
attestVars == <<apc, aargs, asent>>
producerVars == <<soulVars, initVars, attestVars>>
vars == <<verifyVars, producerVars>>

\* val-soul.js is not running
SoulIdle ==
    /\ spc = "idle"
    /\ workspace = <<>>
    /\ topic = <<>>
    /\ soulHash = ""
    /\ lastHash = ""
    /\ sent = <<>>

\* val-soul.js is not running; t is on the topic
SoulIdleOn(t) ==
    /\ spc = "idle"
    /\ workspace = <<>>
    /\ topic = t
    /\ soulHash = ""
    /\ lastHash = ""
    /\ sent = <<>>

\* val-init.js is not running and has not run: no topic, no config file
InitIdle ==
    /\ ipc = "idle"
    /\ iargs = <<>>
    /\ topicId = 0
    /\ config = 0
    /\ isent = <<>>

\* val-attest.js is not running
AttestIdle ==
    /\ apc = "idle"
    /\ aargs = <<>>
    /\ asent = <<>>

\* val-verify.js is not running
VerifyIdle ==
    /\ pc = "idle"
    /\ url = 0
    /\ messages = <<>>
    /\ fetched = <<>>
    /\ issues = <<>>
    /\ report = NoReport
    /\ lastResp = <<>>
    /\ failures = 0
    /\ outstanding = 0
    /\ summaries = 0

Init ==
    /\ pc = "fetch"
    /\ url = 1
    /\ messages = <<>>
    /\ fetched = <<>>
    /\ issues = <<>>
    /\ report = NoReport
    /\ lastResp = <<>>
    /\ failures = 0
    /\ outstanding = 0
    /\ summaries = 0
    /\ SoulIdle
    /\ InitIdle
    /\ AttestIdle

Response(empty, next, err) == [empty |-> empty, next |-> next, err |-> err]

\* links.next of a response: absent, or the cursor of the following page
NextLinks == {0, 2}

\* what makes fetchJson reject: a connection error that a later attempt
\* could survive, or one that it could not (a body that is not JSON)
FailureKinds == {"transient", "permanent"}

\* await fetchJson(url): the request goes out and the loop waits for it to
\* settle
RequestNoAwait ==
    /\ pc = "fetch"
    /\ outstanding < 2
    /\ outstanding' = outstanding + 1
    /\ UNCHANGED <<pc, url, messages, fetched, issues, report, lastResp,
                   failures, summaries>>
    /\ UNCHANGED producerVars

Request ==
    /\ pc = "fetch"
    /\ outstanding = 0
    /\ outstanding' = outstanding + 1
    /\ UNCHANGED <<pc, url, messages, fetched, issues, report, lastResp,
                   failures, summaries>>
    /\ UNCHANGED producerVars

\* fetchJson rejects: the rejection leaves fetchAllMessages and main, and
\* main().catch exits 1
FetchFailsRetries ==
    /\ pc = "fetch"
    /\ outstanding > 0
    /\ outstanding' = outstanding - 1
    /\ failures < 2
    /\ \E kind \in FailureKinds :
         /\ lastResp' = << Response(TRUE, 0, kind) >>
         /\ pc' = IF kind = "transient" THEN "fetch" ELSE "error"
    /\ failures' = failures + 1
    /\ UNCHANGED <<url, messages, fetched, issues, report, summaries>>
    /\ UNCHANGED producerVars

FetchFailsSwallowed ==
    /\ pc = "fetch"
    /\ outstanding > 0
    /\ outstanding' = outstanding - 1
    /\ \E kind \in FailureKinds : lastResp' = << Response(TRUE, 0, kind) >>
    /\ failures' = failures + 1
    /\ pc' = "verify"
    /\ UNCHANGED <<url, messages, fetched, issues, report, summaries>>
    /\ UNCHANGED producerVars

FetchFails ==
    /\ pc = "fetch"
    /\ outstanding > 0
    /\ outstanding' = outstanding - 1
    /\ \E kind \in FailureKinds : lastResp' = << Response(TRUE, 0, kind) >>
    /\ failures' = failures + 1
    /\ pc' = "error"
    /\ UNCHANGED <<url, messages, fetched, issues, report, summaries>>
    /\ UNCHANGED producerVars

\* one turn of the while loop with a response that carries no messages:
\* break, whatever links.next is, and fetchAllMessages returns
FetchEmptyThrows ==
    /\ pc = "fetch"
    /\ outstanding > 0
    /\ outstanding' = outstanding - 1
    /\ \E next \in NextLinks : lastResp' = << Response(TRUE, next, "") >>
    /\ pc' = "error"
    /\ url' = 0
    /\ UNCHANGED <<messages, fetched, issues, report, failures, summaries>>
    /\ UNCHANGED producerVars

FetchEmpty ==
    /\ pc = "fetch"
    /\ outstanding > 0
    /\ outstanding' = outstanding - 1
    /\ \E next \in NextLinks : lastResp' = << Response(TRUE, next, "") >>
    /\ pc' = "verify"
    /\ url' = 0
    /\ UNCHANGED <<messages, fetched, issues, report, failures, summaries>>
    /\ UNCHANGED producerVars

\* one turn of the while loop: page is resp.messages, next is resp.links.next
\* (0 when absent)
FetchPageOnce(page, next) ==
    /\ pc = "fetch"
    /\ outstanding > 0
    /\ outstanding' = outstanding - 1
    /\ Len(page) > 0
    /\ Len(fetched) + Len(page) <= MaxLen
    /\ messages' = messages \o decodeAll(page)
    /\ fetched' = fetched \o page
    /\ lastResp' = << Response(FALSE, next, "") >>
    /\ url' = 0
    /\ pc' = "verify"
    /\ UNCHANGED <<issues, report, failures, summaries>>
    /\ UNCHANGED producerVars

FetchPageTimesOut(page, next) ==
    /\ pc = "fetch"
    /\ outstanding > 0
    /\ outstanding' = outstanding - 1
    /\ Len(page) > 0
    /\ Len(fetched) + Len(page) <= MaxLen
    /\ messages' = messages \o decodeAll(page)
    /\ fetched' = fetched \o page
    /\ lastResp' = << Response(FALSE, next, "") >>
    /\ url' = next
    /\ pc' = IF next = 0 \/ Len(fetched) + Len(page) >= 2 THEN "verify" ELSE "fetch"
    /\ UNCHANGED <<issues, report, failures, summaries>>
    /\ UNCHANGED producerVars

FetchPage(page, next) ==
    /\ pc = "fetch"
    /\ outstanding > 0
    /\ outstanding' = outstanding - 1
    /\ Len(page) > 0
    /\ Len(fetched) + Len(page) <= MaxLen
    /\ messages' = messages \o decodeAll(page)
    /\ fetched' = fetched \o page
    /\ lastResp' = << Response(FALSE, next, "") >>
    /\ url' = next
    /\ pc' = IF next = 0 THEN "verify" ELSE "fetch"
    /\ UNCHANGED <<issues, report, failures, summaries>>
    /\ UNCHANGED producerVars

\* main after the await: verify, then displaySummary
MainTwice ==
    /\ pc = "verify"
    /\ issues' = verify(messages)
    /\ report' = displaySummary(messages, verify(messages))
    /\ summaries' = summaries + 1
    /\ pc' = IF summaries = 0 THEN "verify" ELSE "done"
    /\ UNCHANGED <<url, messages, fetched, lastResp, failures, outstanding>>
    /\ UNCHANGED producerVars

Main ==
    /\ pc = "verify"
    /\ issues' = verify(messages)
    /\ report' = displaySummary(messages, verify(messages))
    /\ summaries' = summaries + 1
    /\ pc' = "done"
    /\ UNCHANGED <<url, messages, fetched, lastResp, failures, outstanding>>
    /\ UNCHANGED producerVars

\* ------------------------------------------------------------ environments
\* the pages of at most MaxPageLen elements of S that still fit the run
Pages(S) ==
    UNION { [1..n -> S] :
            n \in { k \in 1..MaxPageLen : Len(fetched) + k <= MaxLen } }

\* a mirror node that reports any sequence number and timestamp, and
\* answers every request with records
TamperedPayloads == { Garbage, Plain("agent.create"), Plain("action") }
TamperedMsgs ==
    { MirrorMsg(n, t, p) : n \in 1..MaxSeq, t \in TsSet, p \in TamperedPayloads }

FetchTampered ==
    \E page \in Pages(TamperedMsgs), next \in NextLinks :
        FetchPage(page, next)

NextSeq == Request \/ FetchTampered \/ Main

SpecSeq == Init /\ [][NextSeq]_vars

\* a gap-free topic whose producers choose the payloads freely: sequence
\* numbers count on from 1 and consensus timestamps never go back
TopicPayloads ==
    { Garbage, Plain("agent.create"), Plain("action"), Plain("heartbeat"),
      Plain("custom"), Plain(""),
      Payload(TRUE, "action", "", "", 0, <<>>, TRUE),
      Payload(TRUE, "action", "", "", 1, <<>>, FALSE),
      Payload(TRUE, "action", "", "", 0, <<0, 1>>, FALSE),
      Soul("true", "H1"), Soul("false", "H2") }

LastTs == IF fetched = <<>> THEN <<0, 0>>
          ELSE fetched[Len(fetched)].consensus_timestamp

TopicPage(body) ==
    [i \in DOMAIN body |-> MirrorMsg(Len(fetched) + i, body[i][1], body[i][2])]

FetchTopic ==
    \E body \in Pages(TsSet \X TopicPayloads), next \in NextLinks :
        /\ ~StrLess(body[1][1], LastTs)
        /\ \A i \in DOMAIN body : i > 1 => ~StrLess(body[i][1], body[i - 1][1])
        /\ FetchPage(TopicPage(body), next)

Next == Request \/ FetchTopic \/ FetchEmpty \/ FetchFails \/ Main

Spec == Init /\ [][Next]_vars

\* a gap-free topic of identity checks: soul.verify payloads with any match
\* flag (or none) and any soul hash (or none)
IdentityPayloads ==
    { Plain("agent.create"), Plain("action") }
      \cup { Soul(m, h) : m \in {"true", "false", ""}, h \in {"H1", "H2", ""} }

IdentityPage(body) ==
    [i \in DOMAIN body |-> MirrorMsg(Len(fetched) + i, <<0, 1>>, body[i])]

FetchIdentity ==
    \E body \in Pages(IdentityPayloads), next \in NextLinks :
        FetchPage(IdentityPage(body), next)

NextId == Request \/ FetchIdentity \/ FetchEmpty \/ FetchFails \/ Main

SpecId == Init /\ [][NextId]_vars

\* a gap-free topic whose payloads carry any type, none, or are not JSON
TypePayloads ==
    { Garbage, Plain(""), Plain("agent.create"), Plain("action"),
      Plain("unknown"), Plain("constructor"), Plain("__proto__") }

FetchTypes ==
    \E body \in Pages(TypePayloads), next \in NextLinks :
        FetchPage(IdentityPage(body), next)

NextTypes == Request \/ FetchTypes \/ FetchEmpty \/ FetchFails \/ Main

SpecTypes == Init /\ [][NextTypes]_vars

\* a gap-free topic of well-formed records, read by a process that is
\* scheduled again whenever it can go on: the continuation of an await runs
\* once the promise has settled, and main's synchronous tail runs to its end
PlainPayloads == { Plain("agent.create"), Plain("action") }

FetchPlain ==
    \E body \in Pages(PlainPayloads), next \in NextLinks :
        FetchPage(IdentityPage(body), next)

NextLive == Request \/ FetchPlain \/ FetchEmpty \/ FetchFails \/ Main

SpecLive == Init /\ [][NextLive]_vars /\ WF_vars(Request) /\ WF_vars(Main)

\* ------------------------------------------------- producers: shared parts
\* the size limit of one HCS message that the three scripts test against
SizeLimit == 1024

\* receipt.topicId.toString() of the one topic of the model
TopicIdText == "0.0.5270833"

\* a text argument is kept as the number of bytes it takes inside
\* JSON.stringify's output; 0 is the empty string
RECURSIVE Sum(_)
Sum(ns) == IF ns = <<>> THEN 0 ELSE Head(ns) + Sum(Tail(ns))

\* ------------------------------------------------------------ val-soul.js
\* messages the mirror node returns for ?limit=25&order=desc
SoulLimit == 25

identityFiles == << "SOUL.md", "AGENTS.md", "IDENTITY.md", "USER.md" >>

\* A workspace gives each identity file its text, a number in 1..MaxContent,
\* or 0 when readFileSync throws (the file is missing or unreadable).
Workspaces == [ { identityFiles[i] : i \in DOMAIN identityFiles } -> 0..MaxContent ]

\* sha256 of a text, as the number its hex digest writes: collision-free,
\* of fixed width, and in another order than the texts
Digest(content) == 10 + ((7 * content) % 11)

\* hashFile: 0 is null
hashFile(ws, filename) == IF ws[filename] = 0 THEN 0 ELSE Digest(ws[filename])

HashText(d) == "sha256:" \o ToString(d)

\* the for loop of main: hashParts, which is also Object.values(files), in
\* the order of identityFiles
RECURSIVE hashPartsFrom(_, _)
hashPartsFrom(ws, i) ==
    IF i > Len(identityFiles) THEN <<>>
    ELSE (IF hashFile(ws, identityFiles[i]) # 0
          THEN << hashFile(ws, identityFiles[i]) >>
          ELSE <<>>) \o hashPartsFrom(ws, i + 1)

hashParts(ws) == hashPartsFrom(ws, 1)

\* Array.prototype.sort on strings of one width: ascending digests
RECURSIVE Insert(_, _)
Insert(x, sorted) ==
    IF sorted = <<>> THEN << x >>
    ELSE IF x <= Head(sorted) THEN << x >> \o sorted
    ELSE << Head(sorted) >> \o Insert(x, Tail(sorted))

SortUnsorted(xs) == xs

RECURSIVE Sort(_)
Sort(xs) == IF xs = <<>> THEN <<>> ELSE Insert(Head(xs), Sort(Tail(xs)))

\* join("|")
RECURSIVE Join(_)
Join(xs) ==
    IF xs = <<>> THEN ""
    ELSE IF Len(xs) = 1 THEN HashText(Head(xs))
    ELSE HashText(Head(xs)) \o "|" \o Join(Tail(xs))

\* compositeInput and soulHash of main; the sha256 of the joined text is
\* written as that text in brackets
compositeInput(ws) == Join(Sort(hashParts(ws)))

CompositeHash(ws) == "sha256:<" \o compositeInput(ws) \o ">"

Create(hash) == Payload(TRUE, "agent.create", "", hash, 0, <<>>, FALSE)

\* soulHash of val-init.js: the hash of SOUL.md alone
initSoulHash(ws) ==
    IF hashFile(ws, "SOUL.md") = 0 THEN "sha256:none"
    ELSE HashText(hashFile(ws, "SOUL.md"))

\* resp.messages: the latest SoulLimit messages of the topic, newest first
Latest(t) ==
    LET n == IF Len(t) < SoulLimit THEN Len(t) ELSE SoulLimit
    IN  [i \in 1..n |-> t[Len(t) - i + 1]]

\* the for loop of getLastSoulHash: the first message that parses and is a
\* soul.verify or agent.create decides ("" is null)
RECURSIVE ScanSoulHash(_)
ScanSoulHash(msgs) ==
    IF msgs = <<>> THEN ""
    ELSE IF Head(msgs).json /\ Head(msgs).type \in {"soul.verify", "agent.create"}
         THEN Head(msgs).soul_hash
         ELSE ScanSoulHash(Tail(msgs))

\* outcome is what the request to the mirror node gave: "ok" a response with
\* messages, "nomessages" a response without, "unreachable" a rejection
getLastSoulHash(outcome, t) ==
    IF outcome = "ok" THEN ScanSoulHash(Latest(t)) ELSE ""

MirrorOutcomes == {"ok", "nomessages", "unreachable"}

\* the module body: without ~/.val/config.json, or without the account id
\* and key in the environment, the script exits 1
SoulLoadConfig ==
    /\ spc = "start"
    /\ \E creds \in BOOLEAN :
         spc' = IF config = 0 THEN "noconfig"
                ELSE IF ~creds THEN "nocreds" ELSE "files"
    /\ UNCHANGED <<workspace, topic, soulHash, lastHash, sent>>
    /\ UNCHANGED <<verifyVars, initVars, attestVars>>

\* main up to the composite hash: exit 1 when no identity file was read
SoulHashFiles ==
    /\ spc = "files"
    /\ IF hashParts(workspace) = <<>>
       THEN spc' = "nofiles" /\ UNCHANGED soulHash
       ELSE spc' = "hash" /\ soulHash' = CompositeHash(workspace)
    /\ UNCHANGED <<workspace, topic, lastHash, sent>>
    /\ UNCHANGED <<verifyVars, initVars, attestVars>>

\* main up to the comparison: lastHash = await getLastSoulHash()
SoulFetchLast ==
    /\ spc = "hash"
    /\ \E outcome \in MirrorOutcomes : lastHash' = getLastSoulHash(outcome, topic)
    /\ spc' = "submit"
    /\ UNCHANGED <<workspace, topic, soulHash, sent>>
    /\ UNCHANGED <<verifyVars, initVars, attestVars>>

\* match = lastHash ? (lastHash === soulHash) : true
MatchFlag(last, current) ==
    IF last # "" THEN (IF last = current THEN "true" ELSE "false") ELSE "true"

\* Buffer.byteLength of the soul.verify attestation: the frame, the agent,
\* soul_hash, match, and with files one "name":"hash" entry per file read
\* (a real soul_hash and file hash take 71 bytes)
SoulBytes(ws, match, withFiles) ==
    (IF withFiles THEN 121 ELSE 110)
      + Len(TopicIdText) + 71 + Len(match)
      + (IF withFiles
         THEN Sum([i \in DOMAIN identityFiles |->
                     IF hashFile(ws, identityFiles[i]) = 0 THEN 0
                     ELSE Len(identityFiles[i]) + 77])
              - (IF hashParts(ws) = <<>> THEN 0 ELSE 1)
         ELSE 0)

\* what main hands to TopicMessageSubmitTransaction: trimmed when
\* attestation is over the limit
SoulAttestation(ws, match, hash) ==
    [type |-> "soul.verify", match |-> match, soul_hash |-> hash,
     files |-> SoulBytes(ws, match, TRUE) <= SizeLimit,
     bytes |-> IF SoulBytes(ws, match, TRUE) > SizeLimit
               THEN SoulBytes(ws, match, FALSE)
               ELSE SoulBytes(ws, match, TRUE)]

\* the attestation is built and TopicMessageSubmitTransaction executes
SoulSubmit ==
    /\ spc = "submit"
    /\ sent' = << SoulAttestation(workspace, MatchFlag(lastHash, soulHash), soulHash) >>
    /\ topic' = Append(topic, Soul(MatchFlag(lastHash, soulHash), soulHash))
    /\ spc' = "done"
    /\ UNCHANGED <<workspace, soulHash, lastHash>>
    /\ UNCHANGED <<verifyVars, initVars, attestVars>>

\* execute rejects: main().catch exits 1
SoulSubmitFails ==
    /\ spc = "submit"
    /\ spc' = "error"
    /\ UNCHANGED <<workspace, topic, soulHash, lastHash, sent>>
    /\ UNCHANGED <<verifyVars, initVars, attestVars>>

\* a workspace with its SOUL.md in one of two versions, and what the
\* agent's scripts have put on the topic before this run
SoulWorkspaces ==
    { [f \in { identityFiles[i] : i \in DOMAIN identityFiles } |->
         IF f = "SOUL.md" THEN c ELSE IF f = "AGENTS.md" THEN 1 ELSE 0] :
      c \in 1..2 }
SoulHashes == { CompositeHash(ws) : ws \in SoulWorkspaces }
SoulTopicPayloads ==
    { Plain("action") }
      \cup { Create(initSoulHash(ws)) : ws \in SoulWorkspaces }
      \cup { Soul(m, h) : m \in {"true", "false"}, h \in SoulHashes }
SoulTopics == UNION { [1..n -> SoulTopicPayloads] : n \in 0..MaxTopic }

\* val-init.js ran before and left the config file
Initialized ==
    /\ ipc = "idle"
    /\ iargs = <<>>
    /\ topicId = 0
    /\ config = 1
    /\ isent = <<>>

InitSoul ==
    /\ VerifyIdle
    /\ Initialized
    /\ AttestIdle
    /\ spc = "files"
    /\ workspace \in SoulWorkspaces
    /\ topic \in SoulTopics
    /\ soulHash = ""
    /\ lastHash = ""
    /\ sent = <<>>

NextSoul == SoulHashFiles \/ SoulFetchLast \/ SoulSubmit \/ SoulSubmitFails

SpecSoul == InitSoul /\ [][NextSoul]_vars

\* ------------------------------------------------------------ val-init.js
\* name is the --name argument (0 when it is missing), creds whether the
\* account id and key are in the environment; --capabilities and
\* --framework keep their defaults
InitArgs == [name : {0, 5, LongText}, creds : BOOLEAN]

\* Buffer.byteLength of the agent.create attestation: the frame, the agent,
\* name, soul_hash (71 bytes, or "sha256:none"), the default capabilities
\* (33), the creator and the default framework (12)
AccountIdText == "0.0.5270001"

InitBytes(args, ws) ==
    158 + Len(TopicIdText) + args.name
        + (IF hashFile(ws, "SOUL.md") = 0 THEN Len("sha256:none") ELSE 71)
        + 33 + Len(AccountIdText) + 12

InitAttestation(args, ws) ==
    [type |-> "agent.create", name |-> args.name,
     soul_hash |-> initSoulHash(ws), bytes |-> InitBytes(args, ws)]

\* the module body: usage and environment checks
InitCheckArgs ==
    /\ ipc = "start"
    /\ ipc' = IF iargs.name = 0 THEN "usage"
              ELSE IF ~iargs.creds THEN "nocreds" ELSE "create"
    /\ UNCHANGED <<iargs, topicId, config, isent>>
    /\ UNCHANGED <<verifyVars, soulVars, attestVars>>

\* TopicCreateTransaction executes and its receipt names the topic
InitCreateTopic ==
    /\ ipc = "create"
    /\ topicId' = 1
    /\ ipc' = "submit"
    /\ UNCHANGED <<iargs, config, isent>>
    /\ UNCHANGED <<verifyVars, soulVars, attestVars>>

\* execute or getReceipt rejects: main().catch exits 1
InitCreateFails ==
    /\ ipc = "create"
    /\ ipc' = "error"
    /\ UNCHANGED <<iargs, topicId, config, isent>>
    /\ UNCHANGED <<verifyVars, soulVars, attestVars>>

\* the attestation is built, its size is tested (a warning is all the test
\* does) and TopicMessageSubmitTransaction executes
InitSubmit ==
    /\ ipc = "submit"
    /\ isent' = << InitAttestation(iargs, workspace) >>
    /\ topic' = Append(topic, Create(initSoulHash(workspace)))
    /\ ipc' = "save"
    /\ UNCHANGED <<iargs, topicId, config>>
    /\ UNCHANGED <<spc, workspace, soulHash, lastHash, sent>>
    /\ UNCHANGED <<verifyVars, attestVars>>

InitSubmitFails ==
    /\ ipc = "submit"
    /\ ipc' = "error"
    /\ UNCHANGED <<iargs, topicId, config, isent>>
    /\ UNCHANGED <<verifyVars, soulVars, attestVars>>

\* mkdirSync and writeFileSync: the config file names the topic
InitSaveEarly ==
    /\ ipc = "create"
    /\ topicId' = 1
    /\ config' = 1
    /\ ipc' = "submit"
    /\ UNCHANGED <<iargs, isent>>
    /\ UNCHANGED <<verifyVars, soulVars, attestVars>>

InitSave ==
    /\ ipc = "save"
    /\ config' = topicId
    /\ ipc' = "done"
    /\ UNCHANGED <<iargs, topicId, isent>>
    /\ UNCHANGED <<verifyVars, soulVars, attestVars>>

InitSaveFails ==
    /\ ipc = "save"
    /\ ipc' = "error"
    /\ UNCHANGED <<iargs, topicId, config, isent>>
    /\ UNCHANGED <<verifyVars, soulVars, attestVars>>

\* ---------------------------------------------------------- val-attest.js
\* tool and desc are the --tool and --desc arguments (0 when missing or
\* empty), status the --status argument when given, input and output
\* whether --input and --output are given and not empty
Statuses == {"success", "failure", "error"}
StatusArgs == { <<>> } \cup { << st >> : st \in Statuses \cup {"done", ""} }

AttestArgs ==
    [tool : {0, 10}, desc : {0, 23, LongText}, status : StatusArgs,
     input : BOOLEAN, output : BOOLEAN, creds : BOOLEAN]

\* getArg("status", "success")
StatusOf(args) == IF args.status = <<>> THEN "success" ELSE args.status[1]

\* Buffer.byteLength of the action attestation: the frame, the agent, tool,
\* status, desc and the two optional hashes
AttestBytes(args) ==
    113 + Len(TopicIdText) + args.tool + Len(StatusOf(args)) + args.desc
        + (IF args.input THEN 87 ELSE 0)
        + (IF args.output THEN 88 ELSE 0)

ActionAttestation(args) ==
    [type |-> "action", tool |-> args.tool, status |-> StatusOf(args),
     desc |-> args.desc, bytes |-> AttestBytes(args)]

\* the module body up to the config file: usage check
AttestCheckArgs ==
    /\ apc = "start"
    /\ apc' = IF aargs.tool = 0 \/ aargs.desc = 0 THEN "usage" ELSE "config"
    /\ UNCHANGED <<aargs, asent>>
    /\ UNCHANGED <<verifyVars, soulVars, initVars>>

\* the rest of the module body: config file and environment
AttestLoadConfig ==
    /\ apc = "config"
    /\ apc' = IF config = 0 THEN "noconfig"
              ELSE IF ~aargs.creds THEN "nocreds" ELSE "main"
    /\ UNCHANGED <<aargs, asent>>
    /\ UNCHANGED <<verifyVars, soulVars, initVars>>

\* main: the attestation is built, its size is tested (a warning is all the
\* test does) and TopicMessageSubmitTransaction executes
AttestSubmit ==
    /\ apc = "main"
    /\ asent' = << ActionAttestation(aargs) >>
    /\ topic' = Append(topic, Plain("action"))
    /\ apc' = "done"
    /\ UNCHANGED aargs
    /\ UNCHANGED <<spc, workspace, soulHash, lastHash, sent>>
    /\ UNCHANGED <<verifyVars, initVars>>

AttestSubmitFails ==
    /\ apc = "main"
    /\ apc' = "error"
    /\ UNCHANGED <<aargs, asent>>
    /\ UNCHANGED <<verifyVars, soulVars, initVars>>

\* ------------------------------------------------- producer environments
\* one run of val-attest.js on an initialized topic, with any arguments
InitAttest ==
    /\ VerifyIdle
    /\ Initialized
    /\ SoulIdleOn(<< Create("sha256:none") >>)
    /\ apc = "start"
    /\ aargs \in AttestArgs
    /\ asent = <<>>

NextAttest ==
    AttestCheckArgs \/ AttestLoadConfig \/ AttestSubmit \/ AttestSubmitFails

SpecAttest == InitAttest /\ [][NextAttest]_vars

\* one run of each of the three scripts, started in any order on a machine
\* without a config file
ProdWorkspaces ==
    SoulWorkspaces \cup { [f \in { identityFiles[i] : i \in DOMAIN identityFiles } |-> 0] }

ProdInitArgs == { a \in InitArgs : a.name # 0 \/ a.creds }
ProdAttestArgs ==
    { a \in AttestArgs : /\ a.tool # 0 /\ a.desc # 0 /\ ~a.output /\ a.creds
                         /\ a.status \in { <<>>, << "done" >> }
                         /\ a.input = (a.desc = LongText) }

InitProd ==
    /\ VerifyIdle
    /\ ipc = "start"
    /\ iargs \in ProdInitArgs
    /\ topicId = 0
    /\ config = 0
    /\ isent = <<>>
    /\ apc = "start"
    /\ aargs \in ProdAttestArgs
    /\ asent = <<>>
    /\ spc = "start"
    /\ workspace \in ProdWorkspaces
    /\ topic = <<>>
    /\ soulHash = ""
    /\ lastHash = ""
    /\ sent = <<>>

NextProd ==
    \/ InitCheckArgs \/ InitCreateTopic \/ InitCreateFails
    \/ InitSubmit \/ InitSubmitFails \/ InitSave \/ InitSaveFails
    \/ AttestCheckArgs \/ AttestLoadConfig \/ AttestSubmit \/ AttestSubmitFails
    \/ SoulLoadConfig \/ SoulHashFiles \/ SoulFetchLast
    \/ SoulSubmit \/ SoulSubmitFails

SpecProd == InitProd /\ [][NextProd]_vars

\* one run of val-soul.js over any workspace, on a topic that holds its
\* agent.create
InitHash ==
    /\ VerifyIdle
    /\ Initialized
    /\ AttestIdle
    /\ spc = "start"
    /\ workspace \in Workspaces
    /\ topic = << Create("sha256:none") >>
    /\ soulHash = ""
    /\ lastHash = ""
    /\ sent = <<>>

NextHash ==
    SoulLoadConfig \/ SoulHashFiles \/ SoulFetchLast \/ SoulSubmit \/ SoulSubmitFails

SpecHash == InitHash /\ [][NextHash]_vars

\* ------------------------------------------------------------- properties
Done == pc = "done"

HasSev(sev) == \E i \in DOMAIN issues : issues[i].sev = sev
IsGapIssue(x) == x.code = "gap"
IsTsIssue(x) == x.code = "ts"
IsFirstIssue(x) == x.code = "first"
IsParseIssue(x) == x.code = "parse"
IsSoulIssue(x) == x.code = "soul"

\* the indices 2..Len(ms), in order, whose pair with the record before them
\* satisfies Bad
PairsWhere(ms, Bad(_, _)) ==
    LET Test(i) == Bad(ms[i - 1], ms[i])
    IN  SelectSeq([k \in 1..(Len(ms) - 1) |-> k + 1], Test)

SeqBreak(prev, cur) == cur.seq # prev.seq + 1
TsVal(t) == 10 * t[1] + t[2]
TsBack(prev, cur) == TsVal(cur.consensusTs) < TsVal(prev.consensusTs)

Undecodable == { i \in DOMAIN fetched : ~fetched[i].message.json }
Overriding == { i \in DOMAIN fetched :
                  /\ fetched[i].message.json
                  /\ \/ fetched[i].message.seq # 0
                     \/ fetched[i].message.consensusTs # <<>>
                     \/ fetched[i].message.parseError }

\* C1: the run reports PASSED exactly when verify produced no FAIL issue, so
\* a list of only WARN and INFO issues is still reported as passed.
C1_PassedIffNoFail == Done => (report.passed <=> ~HasSev("FAIL"))

\* C2: on a non-empty snapshot the sequence-gap issues are, pair by pair, one
\* FAIL naming prev.seq and cur.seq for every adjacent pair with
\* cur.seq # prev.seq + 1, and none for any other pair.
C2_GapPerBrokenPair ==
    (Done /\ messages # <<>>) =>
        LET bad == PairsWhere(messages, SeqBreak)
        IN  SelectSeq(issues, IsGapIssue) =
              [k \in 1..Len(bad) |->
                 Issue("FAIL", "gap", messages[bad[k] - 1].seq, messages[bad[k]].seq, "")]

C2_Witness ==
    /\ Done /\ Len(messages) = 3
    /\ messages[2].seq = messages[1].seq + 1
    /\ messages[3].seq = messages[2].seq - 1
    /\ SelectSeq(issues, IsGapIssue) =
         << Issue("FAIL", "gap", messages[2].seq, messages[3].seq, "") >>

\* C3: on a non-empty snapshot the timestamp issues are one FAIL citing
\* cur.seq for every adjacent pair whose consensus timestamp goes back, and
\* none for a pair with equal or increasing timestamps.
C3_TsPerRegression ==
    (Done /\ messages # <<>>) =>
        LET bad == PairsWhere(messages, TsBack)
        IN  SelectSeq(issues, IsTsIssue) =
              [k \in 1..Len(bad) |-> Issue("FAIL", "ts", messages[bad[k]].seq, 0, "")]

C3_Witness ==
    /\ Done /\ Len(messages) = 3
    /\ TsVal(messages[2].consensusTs) < TsVal(messages[1].consensusTs)
    /\ messages[3].consensusTs = messages[2].consensusTs
    /\ Len(SelectSeq(issues, IsTsIssue)) = 1

\* C4: on a non-empty snapshot a FAIL for the first record is in the issue
\* list whenever the first record's type is not agent.create, whatever the
\* other records are, and no first-record issue is emitted when it is.
C4_FirstMustBeCreate ==
    (Done /\ messages # <<>>) =>
        /\ messages[1].type # "agent.create" =>
             \E i \in DOMAIN issues : issues[i].code = "first" /\ issues[i].sev = "FAIL"
        /\ messages[1].type = "agent.create" =>
             SelectSeq(issues, IsFirstIssue) = <<>>

C4_Witness ==
    /\ Done /\ Len(messages) = 3
    /\ messages[1].type # "agent.create"
    /\ PairsWhere(messages, SeqBreak) = <<>>
    /\ PairsWhere(messages, TsBack) = <<>>
    /\ Undecodable = {}
    /\ Len(issues) = 1 /\ issues[1].code = "first"

\* C5: for an empty snapshot verify returns exactly one issue, a FAIL for
\* the empty log, and the run is reported as not passed with 0 records.
C5_EmptyLog ==
    (Done /\ messages = <<>>) =>
        /\ issues = << Issue("FAIL", "empty", 0, 0, "") >>
        /\ report.listed = issues
        /\ ~report.passed
        /\ report.total = 0

C5_Witness == Done /\ messages = <<>> /\ fetched = <<>> /\ Len(issues) = 1

\* C6: the gap and timestamp issues of a non-empty snapshot do not depend on
\* the first-record check, on undecodable records or on other pairs: they
\* are those of the same snapshot with every record a decoded agent.create,
\* they are the union of what each adjacent pair yields on its own, and
\* every violating pair is reported.
PairIssues(is) ==
    { is[i] : i \in { j \in DOMAIN is : is[j].code \in {"gap", "ts"} } }

Neutral(ms) ==
    [i \in DOMAIN ms |-> [ms[i] EXCEPT !.type = "agent.create", !.parseError = FALSE]]

C6_ChecksIndependent ==
    (Done /\ messages # <<>>) =>
        /\ PairIssues(issues) = PairIssues(verify(Neutral(messages)))
        /\ PairIssues(issues) =
             UNION { PairIssues(verify(<< Neutral(messages)[i - 1], Neutral(messages)[i] >>)) :
                     i \in 2..Len(messages) }
        /\ Len(SelectSeq(issues, IsGapIssue)) + Len(SelectSeq(issues, IsTsIssue))
             = Len(PairsWhere(messages, SeqBreak)) + Len(PairsWhere(messages, TsBack))

C6_Witness ==
    /\ Done /\ Len(messages) = 3
    /\ messages[1].type # "agent.create"
    /\ Undecodable # {}
    /\ Len(PairsWhere(messages, SeqBreak)) = 2
    /\ Len(PairsWhere(messages, TsBack)) = 1
    /\ Cardinality(PairIssues(issues)) = 3

\* C7: a snapshot that starts with agent.create, whose sequences go up by
\* exactly 1, whose timestamps never go back, whose other records are
\* decoded action or heartbeat records and in which nothing failed to decode
\* has no issue at all and is reported PASSED with its length as total.
CleanSnapshot ==
    /\ messages # <<>>
    /\ messages[1].type = "agent.create"
    /\ \A i \in 2..Len(messages) : messages[i].type \in {"action", "heartbeat"}
    /\ PairsWhere(messages, SeqBreak) = <<>>
    /\ PairsWhere(messages, TsBack) = <<>>
    /\ Undecodable = {}
    /\ Overriding = {}

C7_CleanPasses ==
    (Done /\ CleanSnapshot) =>
        /\ issues = <<>>
        /\ report.passed
        /\ report.total = Len(messages)

C7_Witness ==
    /\ Done /\ CleanSnapshot /\ Len(messages) = 3
    /\ messages[3].consensusTs = messages[2].consensusTs
    /\ report.passed

\* C8: with k >= 1 payloads that failed to decode there is exactly one
\* decode WARN and it states k; with k = 0 there is none.
C8_ParseWarnCountsFailures ==
    (Done /\ messages # <<>>) =>
        SelectSeq(issues, IsParseIssue) =
            IF Cardinality(Undecodable) >= 1
            THEN << Issue("WARN", "parse", Cardinality(Undecodable), 0, "") >>
            ELSE <<>>

\* C9: an undecodable payload does not end the run and keeps its place,
\* sequence number and consensus timestamp in the snapshot, so a gap-free
\* topic with undecodable payloads gets no gap and no timestamp issue from
\* them.
C9_UndecodableKeepsPlace ==
    /\ Len(messages) = Len(fetched)
    /\ \A i \in Undecodable :
         /\ messages[i].seq = fetched[i].sequence_number
         /\ messages[i].consensusTs = fetched[i].consensus_timestamp
    /\ (Done /\ Overriding = {}
          /\ \A i \in 2..Len(fetched) :
               /\ fetched[i].sequence_number = fetched[i - 1].sequence_number + 1
               /\ TsVal(fetched[i].consensus_timestamp)
                    >= TsVal(fetched[i - 1].consensus_timestamp))
         => /\ SelectSeq(issues, IsGapIssue) = <<>>
            /\ SelectSeq(issues, IsTsIssue) = <<>>
            /\ report.total = Len(fetched)

C9_Witness ==
    /\ Done /\ Len(fetched) = 3
    /\ Undecodable = {2}
    /\ Overriding = {}
    /\ SelectSeq(issues, IsGapIssue) = <<>>
    /\ SelectSeq(issues, IsParseIssue) # <<>>

\* C10: over the soul.verify records in order, an INFO "changed at sequence
\* N" is emitted for exactly those after the first whose declared hash
\* differs from the hash of the soul.verify record before them.
HashChanged(prev, cur) == cur.soul_hash # prev.soul_hash

C10_InfoIffHashChanged ==
    Done =>
        LET sv  == SelectSeq(messages, IsSoulVerify)
            bad == PairsWhere(sv, HashChanged)
        IN  SelectSeq(issues, IsSoulIssue) =
              [k \in 1..Len(bad) |-> Issue("INFO", "soul", sv[bad[k]].seq, 0, "")]

\* C11: a soul.verify record after the first whose match flag disagrees
\* with the comparison of its hash against the soul.verify record before it
\* gets a WARN citing its sequence; one whose flag agrees gets none.
FlagDisagrees(prev, cur) ==
    \/ cur.match = "true" /\ cur.soul_hash # prev.soul_hash
    \/ cur.match = "false" /\ cur.soul_hash = prev.soul_hash

C11_WarnOnUntruthfulFlag ==
    Done =>
        LET sv == SelectSeq(messages, IsSoulVerify)
        IN  \A k \in 2..Len(sv) :
              FlagDisagrees(sv[k - 1], sv[k]) <=>
                \E i \in DOMAIN issues :
                    /\ issues[i].sev = "WARN"
                    /\ issues[i].code = "selfreport"
                    /\ issues[i].a = sv[k].seq

\* C12: a decoded record of a known kind that lacks a required field of its
\* kind gets a FAIL citing its sequence; stated for the kind whose data
\* fields verify reads, a soul.verify without match or without soul_hash.
LacksRequired(m) ==
    /\ ~m.parseError
    /\ m.type = "soul.verify"
    /\ (m.match = "" \/ m.soul_hash = "")

C12_FailOnMissingField ==
    Done =>
        \A k \in DOMAIN messages :
            LacksRequired(messages[k]) =>
                \E i \in DOMAIN issues :
                    /\ issues[i].sev = "FAIL"
                    /\ issues[i].code \notin {"first", "gap", "ts", "empty"}
                    /\ issues[i].a = messages[k].seq

\* C13: a record that parses but whose type is none of the four known ones
\* gets a WARN citing its sequence.
KnownTypes == {"agent.create", "action", "soul.verify", "heartbeat"}

C13_WarnOnUnknownType ==
    Done =>
        \A k \in DOMAIN messages :
            (fetched[k].message.json /\ messages[k].type \notin KnownTypes) =>
                \E i \in DOMAIN issues :
                    /\ issues[i].sev = "WARN"
                    /\ issues[i].code # "parse"
                    /\ issues[i].a = messages[k].seq

\* C14: the snapshot handed to verify holds, in order, one record for every
\* record of every page received, and fetching stops only at a response
\* that has no next cursor.
SamePlace(k) ==
    /\ messages[k].parseError = (~fetched[k].message.json \/ fetched[k].message.parseError)
    /\ messages[k].type = fetched[k].message.type
    /\ messages[k].match = fetched[k].message.match
    /\ messages[k].soul_hash = fetched[k].message.soul_hash
    /\ k \notin Overriding =>
         /\ messages[k].seq = fetched[k].sequence_number
         /\ messages[k].consensusTs = fetched[k].consensus_timestamp

AllPagesKept ==
    /\ Len(messages) = Len(fetched)
    /\ \A k \in DOMAIN fetched : SamePlace(k)

Fetching == pc = "fetch" /\ lastResp # <<>>
Fetched == pc \in {"verify", "done"}

C14_StopsOnlyWithoutCursor ==
    /\ AllPagesKept
    /\ Fetching => lastResp[1].next # 0
    /\ Fetched => lastResp[1].next = 0

\* C14 as amended: fetching stops at the first response that has no next
\* cursor or carries no records, and goes on after any other response.
C14_StopsWithoutCursorOrRecords ==
    /\ AllPagesKept
    /\ Fetching => (lastResp[1].next # 0 /\ ~lastResp[1].empty)
    /\ Fetched => (lastResp[1].next = 0 \/ lastResp[1].empty)

C14_Witness ==
    /\ Done /\ Len(fetched) = 3
    /\ ~lastResp[1].empty /\ lastResp[1].next = 0
    /\ Undecodable # {}

\* C15: an empty first page ends the fetch normally with an empty snapshot;
\* the run goes on to verify and the summary, it does not exit in error.
FirstPageEmpty ==
    lastResp # <<>> /\ lastResp[1].empty /\ lastResp[1].err = "" /\ fetched = <<>>

C15_EmptyFirstPageIsNoError ==
    FirstPageEmpty =>
        /\ pc \in {"verify", "done"}
        /\ messages = <<>>
        /\ failures = 0
        /\ Done => report.total = 0

C15_Witness == FirstPageEmpty /\ Done /\ report.listed # <<>>

\* C16: once a page request has failed the run is over in error: verify is
\* not invoked and no issue list or summary comes out of the pages fetched
\* so far.
RequestFailed == lastResp # <<>> /\ lastResp[1].err # ""

C16_FetchErrorEndsRun ==
    /\ RequestFailed <=> pc = "error"
    /\ pc = "error" => (issues = <<>> /\ report = NoReport)

C16_Witness == pc = "error" /\ Len(fetched) = 2 /\ failures = 1

HasFail(is) == \E i \in DOMAIN is : is[i].sev = "FAIL"

NoIdentity(ms) ==
    [k \in DOMAIN ms |->
        IF ms[k].type = "soul.verify"
        THEN [ms[k] EXCEPT !.match = "", !.soul_hash = ""] ELSE ms[k]]

C19_IdentityNeverFails ==
    (Done /\ messages # <<>> /\ messages[1].type = "agent.create"
          /\ PairsWhere(messages, SeqBreak) = <<>>
          /\ PairsWhere(messages, TsBack) = <<>>) =>
        /\ HasFail(issues) = HasFail(verify(NoIdentity(messages)))
        /\ report.passed =
             displaySummary(messages, verify(NoIdentity(messages))).passed

\* C20: the match flag val-soul.js submits is false exactly when a soul
\* hash was attested on the topic before and the last one differs from the
\* current hash.
LastAttested(t) ==
    LET has == { i \in DOMAIN t :
                   /\ t[i].json
                   /\ t[i].type \in {"soul.verify", "agent.create"}
                   /\ t[i].soul_hash # "" }
    IN  IF has = {} THEN ""
        ELSE t[CHOOSE i \in has : \A j \in has : j <= i].soul_hash

C20_MatchIsTruthful ==
    spc = "done" =>
        LET before == SubSeq(topic, 1, Len(topic) - 1)
        IN  sent[1].match =
              IF LastAttested(before) # "" /\ LastAttested(before) # soulHash
              THEN "false" ELSE "true"

\* C21: every attestation a producer script has submitted takes at most
\* 1024 bytes.
C21_AttestationsFit ==
    /\ isent # <<>> => isent[1].bytes <= SizeLimit
    /\ asent # <<>> => asent[1].bytes <= SizeLimit
    /\ sent # <<>> => sent[1].bytes <= SizeLimit

\* C22: the config file exists only once val-init.js has created the topic
\* and its agent.create submission has returned; a run of val-init.js that
\* stopped or failed has written no config; val-attest.js and val-soul.js
\* get past their config check, and submit, only on a topic whose first
\* message is that agent.create.
C22_ConfigAfterCreate ==
    /\ config # 0 =>
         /\ ipc = "done" /\ config = topicId /\ isent # <<>>
         /\ topic # <<>> /\ topic[1].type = "agent.create"
    /\ ipc \in {"usage", "nocreds", "error"} => config = 0
    /\ (apc \in {"main", "done", "error"} \/ asent # <<>>) => config # 0
    /\ (spc \in {"files", "nofiles", "hash", "submit", "done", "error"}
          \/ sent # <<>>) => config # 0
    /\ \A i \in DOMAIN topic : topic[i].type # "agent.create" => i > 1

C22_Witness ==
    /\ ipc = "done" /\ apc = "done" /\ spc = "done"
    /\ Len(topic) = 3
    /\ topic[1].type = "agent.create"

\* C23: the report carries an incomplete flag, false for a run that
\* fetched to the end of the stream and true for one whose fetch was cut
\* short.
EndOfStream == lastResp # <<>> /\ lastResp[1].err = "" /\ lastResp[1].next = 0

C24_OnlyIdentityChecksTrack ==
    Done =>
        LET sv == SelectSeq(messages, IsSoulVerify)
            si == SelectSeq(issues, IsSoulIssue)
        IN  /\ Len(sv) <= 1 => si = <<>>
            /\ \A i \in DOMAIN si : si[i].a # sv[1].seq
            /\ \A i \in DOMAIN si : \E k \in 2..Len(sv) : si[i].a = sv[k].seq
            /\ si = SelectSeq(verify(sv), IsSoulIssue)

C24_Witness ==
    /\ Done /\ Len(messages) = 3
    /\ messages[1].type = "soul.verify" /\ messages[1].match = "false"
    /\ messages[2].parseError
    /\ messages[3].type = "soul.verify" /\ messages[3].match = "false"
    /\ SelectSeq(issues, IsSoulIssue) = << Issue("INFO", "soul", 3, 0, "") >>

\* C25: at most one page request is outstanding; while one is, every
\* record of the responses before it is in the snapshot, and its URL is the
\* first URL when no response came before and the next link of the latest
\* response otherwise.
C25_RequestsInSequence ==
    /\ outstanding <= 1
    /\ outstanding = 1 =>
         /\ pc = "fetch" /\ url # 0
         /\ Len(messages) = Len(fetched)
         /\ lastResp = <<>> => (url = 1 /\ fetched = <<>>)
         /\ lastResp # <<>> =>
              /\ ~lastResp[1].empty /\ lastResp[1].err = ""
              /\ url = lastResp[1].next

C25_Witness ==
    /\ outstanding = 1 /\ Len(fetched) = 2
    /\ lastResp # <<>> /\ url = lastResp[1].next

\* C26: once a response without next link or without records has come, the
\* run goes on to verify and to the summary; verify and displaySummary run
\* once and never again, and no request is outstanding or issued from the
\* terminating response on.
FetchIsOver ==
    pc \in {"verify", "done"} =>
        (outstanding' = 0 /\ UNCHANGED <<url, fetched, lastResp, messages>>)

C26_EndsWithOneSummary ==
    /\ [](summaries <= 1)
    /\ [](Done <=> summaries = 1)
    /\ [](pc \in {"verify", "done", "error"} => outstanding = 0)
    /\ [][FetchIsOver]_vars
    /\ (pc = "verify") ~> Done

C26_Witness ==
    /\ Done /\ summaries = 1 /\ outstanding = 0
    /\ Len(fetched) = 3 /\ lastResp[1].empty

\* C27: in the summary every record of the snapshot is counted under
\* exactly one type, records without type under "unknown": each type of
\* the snapshot has its count, and the counts add up to the total, which
\* is the snapshot's length.
RECURSIVE SumOver(_, _)
SumOver(f, S) ==
    IF S = {} THEN 0
    ELSE LET k == CHOOSE x \in S : TRUE
         IN  f[k] + SumOver(f, S \ {k})

C27_TypeCountsPartition ==
    Done =>
        /\ report.total = Len(messages)
        /\ report.typeTexts = <<>>
        /\ \A i \in DOMAIN messages :
             TypeKey(messages[i]) \in DOMAIN report.typeCounts
        /\ \A k \in DOMAIN report.typeCounts :
             report.typeCounts[k] =
                Cardinality({ i \in DOMAIN messages : TypeKey(messages[i]) = k })
        /\ SumOver(report.typeCounts, DOMAIN report.typeCounts) = report.total

\* C28: an action attestation that val-attest.js has submitted carries a
\* non-empty tool, a description and a status among success, failure and
\* error (success when --status is not given); a run with another
\* --status, or without --tool or --desc, submits nothing.
C28_ActionIsValidated ==
    /\ asent # <<>> =>
         /\ asent[1].tool > 0 /\ asent[1].desc > 0
         /\ asent[1].status \in Statuses
         /\ aargs.status = <<>> => asent[1].status = "success"
    /\ (aargs # <<>> /\ (\/ aargs.tool = 0 \/ aargs.desc = 0
                         \/ (aargs.status # <<>> /\ aargs.status[1] \notin Statuses)))
         => asent = <<>>

\* C29: the composite soul hash is the same for two workspaces exactly
\* when they hold the same texts the same number of times in their
\* readable identity files, whichever file holds which: permuting the
\* texts among the file names keeps it, changing one file's text changes it.
SameTexts(ws1, ws2) ==
    \A c \in 1..MaxContent :
        Cardinality({ f \in DOMAIN ws1 : ws1[f] = c })
          = Cardinality({ f \in DOMAIN ws2 : ws2[f] = c })

C29_CompositeOfTextsOnly ==
    spc \in {"hash", "submit", "done", "error"} =>
        \A ws \in Workspaces :
            SameTexts(workspace, ws) <=> (CompositeHash(ws) = soulHash)

C29_Witness ==
    /\ spc = "done"
    /\ workspace["SOUL.md"] = 1 /\ workspace["AGENTS.md"] = 2
    /\ workspace["IDENTITY.md"] = 0 /\ workspace["USER.md"] = 2
    /\ sent[1].soul_hash = "sha256:<sha256:13|sha256:13|sha256:17>"

====
